---- MODULE Spec2Model ----
(***************************************************************************)
(* Scan-and-sign pipeline of the vigil security scanner: the CLI `scan`,   *)
(* `verify` and `keys` commands (cli.ts), the container and process        *)
(* scanner modules (scanners/containers.ts, scanners/process.ts), the      *)
(* orchestrator and risk aggregator (scanners/index.ts) and the key store  *)
(* and signer (crypto/keys.ts).                                            *)
(***************************************************************************)
EXTENDS Integers, Sequences, FiniteSets, TLC

(***************************************************************************)
(* Bounds of the model.                                                    *)
(***************************************************************************)
\* most findings a host carries over all six domains
MaxFindings == 2

\* latest instant of the system clock
MaxClock == 1

\* ------------------------------------------------------------------------
\* Generic helpers
\* ------------------------------------------------------------------------
RECURSIVE SeqSum(_)
SeqSum(s) == IF s = <<>> THEN 0 ELSE Head(s) + SeqSum(Tail(s))

RECURSIVE Flatten(_)
Flatten(ss) == IF ss = <<>> THEN <<>> ELSE Head(ss) \o Flatten(Tail(ss))

RECURSIVE CountOf(_, _)
CountOf(s, v) ==
    IF s = <<>> THEN 0
    ELSE (IF Head(s) = v THEN 1 ELSE 0) + CountOf(Tail(s), v)

SeqsUpTo(S, n) == UNION {[1..k -> S] : k \in 0..n}

\* ------------------------------------------------------------------------
\* Data model: severities, domains, domain results
\* ------------------------------------------------------------------------
Severity == {"critical", "high", "medium", "low"}

\* severities of the dependency audit (npm audit taxonomy)
AuditSeverity == {"critical", "high", "moderate", "low"}

\* the six domain slots of a ScanReport, in their fixed order
Domains == <<"network", "processes", "filesystem", "dependencies",
             "configuration", "containers">>

DomainSet == {Domains[i] : i \in 1..Len(Domains)}

DomainIndex(d) == CHOOSE i \in 1..Len(Domains) : Domains[i] = d

\* severities a module of domain d can attach to a finding
ModuleSeverity(d) == IF d = "dependencies" THEN AuditSeverity ELSE Severity

\* A DomainResult: the module's findings (by severity) and whether the
\* capability it probes was reachable.
DomainResult(d, fs, avail) ==
    [domain |-> d, findings |-> fs, available |-> avail]

NoResult == [domain |-> "none", findings |-> <<>>, available |-> FALSE]

\* ------------------------------------------------------------------------
\* Risk aggregator
\* ------------------------------------------------------------------------
MapSeverityIdentity(s) == s

\* dependency-audit severities are mapped onto the four-level scale
MapSeverity(s) == IF s = "moderate" THEN "medium" ELSE s

MapAll(fs) == [i \in 1..Len(fs) |-> MapSeverity(fs[i])]

\* all findings of the six domain results, on the four-level scale
AllFindings(rs) == Flatten([i \in 1..Len(rs) |-> MapAll(rs[i].findings)])

RiskLevelFirstMatchLow(c, h, m, l) ==
    IF l > 0 THEN "LOW"
    ELSE IF m > 0 THEN "MEDIUM"
    ELSE IF h > 0 THEN "HIGH"
    ELSE IF c > 0 THEN "CRITICAL"
    ELSE "CLEAN"

RiskLevel(c, h, m, l) ==
    IF c > 0 THEN "CRITICAL"
    ELSE IF h > 0 THEN "HIGH"
    ELSE IF m > 0 THEN "MEDIUM"
    ELSE IF l > 0 THEN "LOW"
    ELSE "CLEAN"

calculateSummary(rs) ==
    LET all == AllFindings(rs)
        c == CountOf(all, "critical")
        h == CountOf(all, "high")
        m == CountOf(all, "medium")
        l == CountOf(all, "low")
    IN [totalIssues    |-> SeqSum([i \in 1..Len(rs) |-> Len(rs[i].findings)]),
        criticalIssues |-> c,
        highIssues     |-> h,
        mediumIssues   |-> m,
        lowIssues      |-> l,
        riskLevel      |-> RiskLevel(c, h, m, l)]

\* ------------------------------------------------------------------------
\* Scan report
\* ------------------------------------------------------------------------
Hostname == "host"

\* the ScanReport assembled from the six results of the join, which arrive
\* as an array in dispatch order
AssembleReportSwapped(rs, ts) ==
    [timestamp     |-> ts,
     hostname      |-> Hostname,
     network       |-> rs[1],
     processes     |-> rs[2],
     filesystem    |-> rs[4],
     dependencies  |-> rs[3],
     configuration |-> rs[5],
     containers    |-> rs[6],
     summary       |-> calculateSummary(rs)]

AssembleReport(rs, ts) ==
    [timestamp     |-> ts,
     hostname      |-> Hostname,
     network       |-> rs[1],
     processes     |-> rs[2],
     filesystem    |-> rs[3],
     dependencies  |-> rs[4],
     configuration |-> rs[5],
     containers    |-> rs[6],
     summary       |-> calculateSummary(rs)]

NoReport == [none |-> TRUE]

\* the six domain slots of a report, read in the order formatReport prints
ReportSlots(r) ==
    <<r.network, r.processes, r.filesystem, r.dependencies,
      r.configuration, r.containers>>

\* the text rendering consumes the summary and the six slots
formatReport(r) ==
    [timestamp |-> r.timestamp, hostname |-> r.hostname,
     summary |-> r.summary, sections |-> ReportSlots(r)]

\* ------------------------------------------------------------------------
\* JSON text.  A text is a sequence of tokens: punctuation, insignificant
\* whitespace, strings and other scalars.  A JSON object is an ordered
\* sequence of members <<key, scalar>>.
\* ------------------------------------------------------------------------
LBrace == [p |-> "{"]
RBrace == [p |-> "}"]
Colon  == [p |-> ":"]
Comma  == [p |-> ","]
Newline == [w |-> "nl"]    \* a line break with its indentation
Space   == [w |-> "sp"]
Str(s) == [str |-> s]

IsWhitespace(t) == t \in {Newline, Space}
IsPunct(t) == t \in {LBrace, RBrace, Colon, Comma}
IsString(t) == DOMAIN t = {"str"}
IsScalar(t) == ~IsWhitespace(t) /\ ~IsPunct(t)

Undefined == [undefined |-> TRUE]

\* the members of the report object, in the order its fields were created
ReportMembers(r) ==
    << <<"timestamp", [ts |-> r.timestamp]>>,
       <<"hostname", Str(r.hostname)>>,
       <<"network", [res |-> r.network]>>,
       <<"processes", [res |-> r.processes]>>,
       <<"filesystem", [res |-> r.filesystem]>>,
       <<"dependencies", [res |-> r.dependencies]>>,
       <<"configuration", [res |-> r.configuration]>>,
       <<"containers", [res |-> r.containers]>>,
       <<"summary", [sum |-> r.summary]>> >>

RECURSIVE JoinMembers(_, _)
\* members rendered one after the other, separated by sep
JoinMembers(ms, sep) ==
    IF ms = <<>> THEN <<>>
    ELSE ms[1] \o (IF Len(ms) = 1 THEN <<>> ELSE sep \o JoinMembers(Tail(ms), sep))

\* JSON.stringify(obj): the compact encoding of an object
StringifyObject(ms) ==
    <<LBrace>>
    \o JoinMembers([i \in 1..Len(ms) |-> <<Str(ms[i][1]), Colon, ms[i][2]>>],
                   <<Comma>>)
    \o <<RBrace>>

\* JSON.stringify(obj, null, 2) of an object nested in the top-level one
PrettyObject(ms) ==
    IF ms = <<>> THEN <<LBrace, RBrace>>
    ELSE <<LBrace, Newline>>
         \o JoinMembers([i \in 1..Len(ms) |->
                            <<Str(ms[i][1]), Colon, Space, ms[i][2]>>],
                        <<Comma, Newline>>)
         \o <<Newline, RBrace>>

\* JSON.stringify(signedReport, null, 2)
PrettySigned(reportMs, sigMs) ==
    <<LBrace, Newline, Str("report"), Colon, Space>> \o PrettyObject(reportMs)
    \o <<Comma, Newline, Str("signature"), Colon, Space>> \o PrettyObject(sigMs)
    \o <<Newline, RBrace>>

\* whitespace between tokens is insignificant to JSON.parse
StripWhitespace(toks) == SelectSeq(toks, LAMBDA t : ~IsWhitespace(t))

ParseFail == [ok |-> FALSE, members |-> <<>>, next |-> 0]

RECURSIVE ParseMembers(_, _, _)
\* members of an object whose opening brace precedes position i
ParseMembers(toks, i, acc) ==
    IF i + 3 > Len(toks) THEN ParseFail
    ELSE IF IsString(toks[i]) /\ toks[i+1] = Colon /\ IsScalar(toks[i+2])
    THEN LET acc2 == Append(acc, <<toks[i].str, toks[i+2]>>)
         IN IF toks[i+3] = Comma THEN ParseMembers(toks, i + 4, acc2)
            ELSE IF toks[i+3] = RBrace
                 THEN [ok |-> TRUE, members |-> acc2, next |-> i + 4]
                 ELSE ParseFail
    ELSE ParseFail

\* an object of scalars starting at position i
ParseObject(toks, i) ==
    IF i + 1 > Len(toks) \/ toks[i] # LBrace THEN ParseFail
    ELSE IF toks[i+1] = RBrace
         THEN [ok |-> TRUE, members |-> <<>>, next |-> i + 2]
         ELSE ParseMembers(toks, i + 1, <<>>)

RECURSIVE ParseTop(_, _, _)
\* members of the top-level object, each holding an object of scalars
ParseTop(toks, i, acc) ==
    IF i + 1 > Len(toks) \/ ~IsString(toks[i]) \/ toks[i+1] # Colon
    THEN ParseFail
    ELSE LET o == ParseObject(toks, i + 2)
         IN IF ~o.ok \/ o.next > Len(toks) THEN ParseFail
            ELSE LET acc2 == Append(acc, <<toks[i].str, o.members>>)
                 IN IF toks[o.next] = Comma
                    THEN ParseTop(toks, o.next + 1, acc2)
                    ELSE IF toks[o.next] = RBrace /\ o.next = Len(toks)
                         THEN [ok |-> TRUE, members |-> acc2,
                               next |-> o.next + 1]
                         ELSE ParseFail

\* the last member named k wins; 0 when there is none
LastIndex(ms, k) ==
    LET hits == {i \in 1..Len(ms) : ms[i][1] = k}
    IN IF hits = {} THEN 0 ELSE CHOOSE i \in hits : \A j \in hits : j <= i

RECURSIVE Dedupe(_, _)
\* a parsed object keeps one property per key: at the position of its first
\* occurrence, with the value of its last
Dedupe(ms, all) ==
    IF ms = <<>> THEN <<>>
    ELSE LET k == ms[Len(ms)][1]
             front == Dedupe(SubSeq(ms, 1, Len(ms) - 1), all)
         IN IF \E i \in 1..(Len(ms) - 1) : ms[i][1] = k
            THEN front
            ELSE Append(front, <<k, all[LastIndex(all, k)][2]>>)

\* the top-level object of a text without whitespace
ParseText(s) ==
    IF Len(s) >= 2 /\ s[1] = LBrace
    THEN (IF s[2] = RBrace /\ Len(s) = 2
          THEN [ok |-> TRUE, members |-> <<>>, next |-> 3]
          ELSE ParseTop(s, 2, <<>>))
    ELSE ParseFail

\* the objects held by the members of the top-level object
ParsedObjects(top) ==
    [i \in 1..Len(top.members) |->
       <<top.members[i][1], Dedupe(top.members[i][2], top.members[i][2])>>]

\* the report and signature properties of the parsed value
SignedReportOf(top, objs) ==
    LET ri == LastIndex(objs, "report")
        si == LastIndex(objs, "signature")
    IN [ok |-> top.ok,
        hasReport |-> top.ok /\ ri > 0,
        report |-> IF top.ok /\ ri > 0 THEN objs[ri][2] ELSE <<>>,
        hasSignature |-> top.ok /\ si > 0,
        signature |-> IF top.ok /\ si > 0 THEN objs[si][2] ELSE <<>>]

\* JSON.parse of a signed-report file: the report and signature objects
ParseSigned(toks) ==
    LET tops == {ParseText(s) : s \in {StripWhitespace(toks)}}
        values == UNION {{SignedReportOf(top, objs) :
                            objs \in {ParsedObjects(top)}} : top \in tops}
    IN CHOOSE v \in values : TRUE

\* obj[k] of a parsed object
Field(ms, k) ==
    LET i == LastIndex(ms, k) IN IF i = 0 THEN Undefined ELSE ms[i][2]

\* JavaScript truthiness of a field: undefined and "" are falsy
Truthy(t) == t # Undefined /\ t # Str("")

\* ------------------------------------------------------------------------
\* Key store and signer (crypto/keys.ts)
\* ------------------------------------------------------------------------
\* callers of ensureKeysExist: the `scan` process and the `keys --generate`
\* processes; at most MaxKeyProcs of them run at a time
MaxKeyProcs == 2
ScanCaller == 0
KeyProcs == 1..MaxKeyProcs
Callers == {ScanCaller} \cup KeyProcs

NoKeys == [none |-> TRUE]

\* the n-th keypair ever generated; both halves are opaque key material
KeyPair(n) == [privateKey |-> [priv |-> n], publicKey |-> [pub |-> n]]

\* SHA-256 digest of a text
hashData(data) == [sha256 |-> data]

\* Ed25519 signature of a text under a private key
signData(data, privateKey) == [signed |-> data, by |-> privateKey.priv]

\* a signature verifies for exactly the text it was made over and the
\* public half of the key it was made with
verifySignature(data, sig, publicKey) ==
    /\ DOMAIN sig = {"signed", "by"}
    /\ DOMAIN publicKey = {"pub"}
    /\ sig.signed = data
    /\ sig.by = publicKey.pub

\* ------------------------------------------------------------------------
\* State
\* ------------------------------------------------------------------------
VARIABLES
    host,          \* what the six modules find on this host
    opts,          \* options of the scan command: json, sign, output
    clock,         \* system time
    cliPc,         \* position of the scan handler
    task,          \* state of each scanner module task
    procSub,       \* state of the three sub-scans of the process module
    results,       \* results array of the join, in dispatch order
    outOfOrder,    \* some module completed before an earlier-dispatched one
    report,        \* the report returned by runFullScan
    signed,        \* hash, signature and publicKey locals of the scan handler
    console,       \* what the commands have printed
    exitCode,      \* exit code of the scan process, -1 while it runs
    file,          \* content of the output file
    original,      \* the file as scan wrote it
    tamper,        \* how the file was edited after scan wrote it
    keyStore,      \* the keypair on disk
    storeWritable, \* whether the key directory can be written
    generated,     \* number of keypairs generated so far
    ensPc,         \* position of each caller inside ensureKeysExist
    ensKeys,       \* keypair each caller holds
    ensTrace,      \* keypairs returned by completed calls, in order
    keysPc,        \* position of each keys --generate handler
    verifyPc,      \* position of the verify handler
    verifyOut,     \* outcome of the verify handler
    ctPc,          \* position of scanContainers
    ctLines,       \* lines of the container listing still to process
    ctContainers,  \* containers collected so far by listContainers
    ctResult,      \* settlement of the scanContainers promise
    subResult,     \* settlement of each sub-scan of scanProcesses
    procPc,        \* position of scanProcesses
    procResult,    \* settlement of the scanProcesses promise
    exec,          \* how the latest run of each external command ended
    procEnv,       \* process.env as scanEnvironmentVariables read it
    mcpPc,         \* position of the CallTool handler of the MCP server
    mcpCall,       \* tool name and arguments of the request
    mcpRan,        \* commands the handler has executed, in order
    mcpScan,       \* scanResult local of the handler
    mcpResponse,   \* what the handler returned
    monPc,         \* position of the CallTool handler of the monitoring server
    monCall,       \* tool name and arguments of the monitoring request
    monRequests,   \* HTTP requests sent to the Vigil server, in order
    monResult      \* what the monitoring handler returned or threw

scanVars == <<host, opts, clock, cliPc, task, procSub, results, outOfOrder,
              report, signed, exitCode>>
fileVars == <<file, original, tamper>>
keyVars == <<keyStore, storeWritable, generated, ensPc, ensKeys, ensTrace,
             keysPc>>
verifyVars == <<verifyPc, verifyOut>>
monVars == <<monPc, monCall, monRequests, monResult>>
mcpVars == <<mcpPc, mcpCall, mcpRan, mcpScan, mcpResponse, monVars>>
cliVars == <<scanVars, console, fileVars, keyVars, verifyVars>>

NoFile == <<>>
NoSigned == [hash |-> Str(""), signature |-> Str(""), publicKey |-> Str("")]

modVars == <<ctPc, ctLines, ctContainers, ctResult, subResult, procPc,
             procResult, exec, procEnv>>

Pending == [settled |-> "pending"]
Resolved(v) == [settled |-> "resolved", value |-> v]
Rejected == [settled |-> "rejected"]

Out(m) == [stream |-> "out", msg |-> m]
Err(m) == [stream |-> "err", msg |-> m]

Say(c, cond, entry) == IF cond THEN Append(c, entry) ELSE c

\* ------------------------------------------------------------------------
\* Hosts: what each scanner module finds
\* ------------------------------------------------------------------------
FindingPairs == UNION {{<<d, s>> : s \in ModuleSeverity(d)} : d \in DomainSet}

SeveritiesOf(fl, d) ==
    LET mine == SelectSeq(fl, LAMBDA f : f[1] = d)
    IN [i \in 1..Len(mine) |-> mine[i][2]]

HostOf(fl, dk) ==
    [findings |-> [d \in DomainSet |-> SeveritiesOf(fl, d)], docker |-> dk]

\* an unreachable container runtime yields no container findings
HostsOf(lists) ==
    {h \in {HostOf(fl, dk) : fl \in lists, dk \in BOOLEAN} :
        h.docker \/ h.findings["containers"] = <<>>}

Hosts == HostsOf(SeqsUpTo(FindingPairs, MaxFindings))

\* hosts of the command-line runs: a clean host, the host with one
\* dangerous port, and a host with a critical process and a moderate
\* dependency vulnerability
ScanHosts ==
    { HostOf(<<>>, FALSE),
      HostOf(<< <<"network", "high">> >>, TRUE),
      HostOf(<< <<"processes", "critical">>, <<"dependencies", "moderate">> >>,
             TRUE) }

\* the DomainResult module d resolves with on host h
ModuleResult(d, h) ==
    DomainResult(d, h.findings[d], IF d = "containers" THEN h.docker ELSE TRUE)

NoResults == [i \in 1..Len(Domains) |-> NoResult]
IdleTasks == [d \in DomainSet |-> "idle"]

\* ------------------------------------------------------------------------
\* scan command (cli.ts)
\* ------------------------------------------------------------------------
\* the three sub-scans scanProcesses starts together
ProcessSubScans == {"findSuspiciousProcesses", "findPrivilegedProcesses",
                    "scanEnvironmentVariables"}
IdleSubScans == [s \in ProcessSubScans |-> "idle"]

ProcessesJoinedAny(sub) == \E s \in ProcessSubScans : sub[s] = "done"

\* scanProcesses resolves once Promise.all of its sub-scans has
ProcessesJoined(sub) == \A s \in ProcessSubScans : sub[s] = "done"

\* the handler prints its banner and calls runFullScan, which dispatches
\* the six modules at once
ScanStart ==
    /\ cliPc = "start"
    /\ console' = Say(console, ~opts.json, Out("Starting Vigil Security Scan"))
    /\ task' = [d \in DomainSet |-> "running"]
    /\ procSub' = [s \in ProcessSubScans |-> "running"]
    /\ cliPc' = "scanning"
    /\ UNCHANGED <<host, opts, clock, results, outOfOrder, report, signed,
                   exitCode, fileVars, keyVars, verifyVars>>

\* one sub-scan of the process module resolves
SubScanComplete(s) ==
    /\ cliPc = "scanning"
    /\ procSub[s] = "running"
    /\ procSub' = [procSub EXCEPT ![s] = "done"]
    /\ UNCHANGED <<host, opts, clock, cliPc, task, results, outOfOrder,
                   report, signed, exitCode, console, fileVars, keyVars,
                   verifyVars>>

\* module d resolves; its result is stored at its own index of the join
ModuleComplete(d) ==
    /\ cliPc = "scanning"
    /\ task[d] = "running"
    /\ d = "processes" => ProcessesJoined(procSub)
    /\ task' = [task EXCEPT ![d] = "done"]
    /\ results' = [results EXCEPT ![DomainIndex(d)] = ModuleResult(d, host)]
    /\ outOfOrder' = (outOfOrder \/
                      \E e \in DomainSet : /\ DomainIndex(e) < DomainIndex(d)
                                           /\ task[e] = "running")
    /\ UNCHANGED <<host, opts, clock, cliPc, procSub, report, signed,
                   exitCode, console, fileVars, keyVars, verifyVars>>

\* the join of runFullScan: every module task has resolved
Joined(t) == \A d \in DomainSet : t[d] = "done"

\* a handler that calls ensureKeysExist whatever options.sign is
ScanJoinAlwaysSigns ==
    /\ cliPc = "scanning"
    /\ Joined(task)
    /\ report' = AssembleReport(results, clock)
    /\ cliPc' = "signing"
    /\ ensPc' = [ensPc EXCEPT ![ScanCaller] = "check"]
    /\ UNCHANGED <<host, opts, clock, task, procSub, results, outOfOrder,
                   signed, exitCode, console, fileVars, keyStore,
                   storeWritable, generated, ensKeys, ensTrace, keysPc,
                   verifyVars>>

\* runFullScan resolves with the assembled report; the handler goes on to
\* call ensureKeysExist unless signing is switched off
ScanJoin ==
    /\ cliPc = "scanning"
    /\ Joined(task)
    /\ report' = AssembleReport(results, clock)
    /\ IF opts.sign
       THEN /\ cliPc' = "signing"
            /\ ensPc' = [ensPc EXCEPT ![ScanCaller] = "check"]
       ELSE /\ cliPc' = "output"
            /\ UNCHANGED ensPc
    /\ UNCHANGED <<host, opts, clock, task, procSub, results, outOfOrder,
                   signed, exitCode, console, fileVars, keyStore,
                   storeWritable, generated, ensKeys, ensTrace, keysPc,
                   verifyVars>>

\* an outer catch that reports the error and exits with code 0
ScanAbortExitsZero ==
    /\ cliPc = "scanning"
    /\ Joined(task)
    /\ console' = Append(console, Err("Error running scan"))
    /\ exitCode' = 0
    /\ cliPc' = "exited"
    /\ task' = IdleTasks
    /\ procSub' = IdleSubScans
    /\ results' = NoResults
    /\ outOfOrder' = FALSE
    /\ UNCHANGED <<host, opts, clock, report, signed, fileVars, keyVars,
                   verifyVars>>

\* runFullScan rejects (the environment cannot supply time or hostname):
\* the outer catch reports the error and exits with code 1
ScanAbort ==
    /\ cliPc = "scanning"
    /\ Joined(task)
    /\ console' = Append(console, Err("Error running scan"))
    /\ exitCode' = 1
    /\ cliPc' = "exited"
    /\ task' = IdleTasks
    /\ procSub' = IdleSubScans
    /\ results' = NoResults
    /\ outOfOrder' = FALSE
    /\ UNCHANGED <<host, opts, clock, report, signed, fileVars, keyVars,
                   verifyVars>>

\* time passes between the creation of the report and its signing
Tick ==
    /\ cliPc \in {"signing", "output"}
    /\ clock < MaxClock
    /\ clock' = clock + 1
    /\ UNCHANGED <<host, opts, cliPc, task, procSub, results, outOfOrder,
                   report, signed, exitCode, console, fileVars, keyVars,
                   verifyVars>>

\* ------------------------------------------------------------------------
\* ensureKeysExist (crypto/keys.ts), for caller c
\* ------------------------------------------------------------------------
CreateOverwrite(store, k) == k

\* exclusive creation of the key files: the keypair on disk after a caller
\* that found none tries to create k
CreateIfAbsent(store, k) == IF store = NoKeys THEN k ELSE store

KeysPresentNever(store) == FALSE

\* whether the key files exist
KeysPresent(store) == store # NoKeys

\* the caller looks for a keypair on disk and loads it when there is one
EnsureCheck(c) ==
    /\ ensPc[c] = "check"
    /\ IF KeysPresent(keyStore)
       THEN /\ ensKeys' = [ensKeys EXCEPT ![c] = keyStore]
            /\ ensPc' = [ensPc EXCEPT ![c] = "done"]
            /\ ensTrace' = Append(ensTrace, keyStore)
       ELSE /\ ensPc' = [ensPc EXCEPT ![c] = "create"]
            /\ UNCHANGED <<ensKeys, ensTrace>>
    /\ UNCHANGED <<scanVars, console, fileVars, keyStore, storeWritable,
                   generated, keysPc, verifyVars>>

\* the caller generates a keypair and creates the key files, failing with
\* a KeyStorageError when the key directory cannot be written
EnsureCreate(c) ==
    /\ ensPc[c] = "create"
    /\ generated' = generated + 1
    /\ IF storeWritable
       THEN /\ keyStore' = CreateIfAbsent(keyStore, KeyPair(generated + 1))
            /\ ensKeys' = [ensKeys EXCEPT ![c] = keyStore']
            /\ ensPc' = [ensPc EXCEPT ![c] = "done"]
            /\ ensTrace' = Append(ensTrace, keyStore')
       ELSE /\ ensPc' = [ensPc EXCEPT ![c] = "failed"]
            /\ UNCHANGED <<keyStore, ensKeys, ensTrace>>
    /\ UNCHANGED <<scanVars, console, fileVars, storeWritable, keysPc,
                   verifyVars>>

\* ------------------------------------------------------------------------
\* scan command, continued: signing, output, exit
\* ------------------------------------------------------------------------
\* JSON.stringify(report)
ReportJson(r) == StringifyObject(ReportMembers(r))

SignReportPretty(r, keys, signerOk) ==
    [hash      |-> hashData(ReportJson(r)),
     signature |-> IF signerOk
                   THEN signData(PrettyObject(ReportMembers(r)), keys.privateKey)
                   ELSE Str(""),
     publicKey |-> IF signerOk THEN keys.publicKey ELSE Str("")]

\* a signing block that copies the wrong half of the keypair into the record
SignReportWrongHalf(r, keys, signerOk) ==
    [hash      |-> hashData(ReportJson(r)),
     signature |-> IF signerOk THEN signData(ReportJson(r), keys.privateKey)
                   ELSE Str(""),
     publicKey |-> IF signerOk THEN keys.privateKey ELSE Str("")]

\* a signing block that signs the text of the digest instead of the
\* encoding
SignReportOverDigest(r, keys, signerOk) ==
    [hash      |-> hashData(ReportJson(r)),
     signature |-> IF signerOk
                   THEN signData(<<hashData(ReportJson(r))>>, keys.privateKey)
                   ELSE Str(""),
     publicKey |-> IF signerOk THEN keys.publicKey ELSE Str("")]

\* a signing block that falls back on the hash when signData throws
SignReportHashFallback(r, keys, signerOk) ==
    [hash      |-> hashData(ReportJson(r)),
     signature |-> IF signerOk THEN signData(ReportJson(r), keys.privateKey)
                   ELSE hashData(ReportJson(r)),
     publicKey |-> keys.publicKey]

\* the hash, signature and publicKey locals after the signing block ran
\* with the keypair of ensureKeysExist; when signData throws, the
\* assignments after it are skipped
SignReport(r, keys, signerOk) ==
    [hash      |-> hashData(ReportJson(r)),
     signature |-> IF signerOk THEN signData(ReportJson(r), keys.privateKey)
                   ELSE Str(""),
     publicKey |-> IF signerOk THEN keys.publicKey ELSE Str("")]

\* ensureKeysExist has settled: the report is signed, or the failure is
\* caught and the report stays unsigned
ScanSign ==
    /\ cliPc = "signing"
    /\ ensPc[ScanCaller] \in {"done", "failed"}
    /\ \E signerOk \in BOOLEAN :
          /\ ensPc[ScanCaller] = "failed" => signerOk
          /\ LET ok == ensPc[ScanCaller] = "done" /\ signerOk
             IN /\ signed' = IF ensPc[ScanCaller] = "done"
                             THEN SignReport(report, ensKeys[ScanCaller], signerOk)
                             ELSE signed
                /\ console' =
                     IF ok
                     THEN Say(console, ~opts.json,
                              Out("Report cryptographically signed"))
                     ELSE Say(console, ~opts.json,
                              Err("Warning: Could not sign report"))
    /\ cliPc' = "output"
    /\ UNCHANGED <<host, opts, clock, task, procSub, results, outOfOrder,
                   report, exitCode, fileVars, keyVars, verifyVars>>

\* the signature record of the signed report
SignatureMembers(sg, ts) ==
    << <<"hash", sg.hash>>,
       <<"signature", sg.signature>>,
       <<"publicKey", sg.publicKey>>,
       <<"algorithm", Str("Ed25519")>>,
       <<"timestamp", [ts |-> ts]>> >>

\* JSON.stringify(signedReport, null, 2)
SignedReportText(r, sg, ts) ==
    PrettySigned(ReportMembers(r), SignatureMembers(sg, ts))

\* what the handler prints before it writes the output file
ScanPrinted(c, o, r, sg, ts) ==
    IF o.json
    THEN Append(c, [stream |-> "out", msg |-> "json",
                    json |-> SignedReportText(r, sg, ts)])
    ELSE Say(Append(c, [stream |-> "out", msg |-> "report",
                        text |-> formatReport(r)]),
             Truthy(sg.signature),
             [stream |-> "out", msg |-> "CRYPTOGRAPHIC SIGNATURE",
              hash |-> sg.hash, signature |-> sg.signature])

\* the signed report is assembled and printed, and written to the output
\* file when one is asked for; a failed write ends in the outer catch
ScanOutput ==
    /\ cliPc = "output"
    /\ \E writeOk \in BOOLEAN :
          /\ ~opts.output => writeOk
          /\ LET text == SignedReportText(report, signed, clock)
                 printed == ScanPrinted(console, opts, report, signed, clock)
             IN IF ~opts.output
                THEN /\ console' = printed
                     /\ cliPc' = "exit"
                     /\ UNCHANGED <<exitCode, fileVars, task, procSub,
                                    results, outOfOrder>>
                ELSE IF writeOk
                THEN /\ file' = text
                     /\ original' = text
                     /\ tamper' = "none"
                     /\ console' = Append(printed,
                           [stream |-> IF opts.json THEN "err" ELSE "out",
                            msg |-> "Report saved"])
                     /\ cliPc' = "exit"
                     /\ UNCHANGED <<exitCode, task, procSub, results,
                                    outOfOrder>>
                ELSE /\ console' = Append(printed, Err("Error running scan"))
                     /\ exitCode' = 1
                     /\ cliPc' = "exited"
                     /\ task' = IdleTasks
                     /\ procSub' = IdleSubScans
                     /\ results' = NoResults
                     /\ outOfOrder' = FALSE
                     /\ UNCHANGED fileVars
    /\ UNCHANGED <<host, opts, clock, report, signed, keyVars, verifyVars>>

\* a handler that never looks at the risk level
ScanExitCodeNever(r) == 0

\* exit code of a scan that ran to its end
ScanExitCode(r) == IF r.summary.riskLevel = "CRITICAL" THEN 1 ELSE 0

\* the handler ends: exit code 1 on a CRITICAL report
ScanExit ==
    /\ cliPc = "exit"
    /\ exitCode' = ScanExitCode(report)
    /\ cliPc' = "exited"
    /\ task' = IdleTasks
    /\ procSub' = IdleSubScans
    /\ results' = NoResults
    /\ outOfOrder' = FALSE
    /\ UNCHANGED <<host, opts, clock, report, signed, console, fileVars,
                   keyVars, verifyVars>>

\* ------------------------------------------------------------------------
\* Edits of the output file between scan and verify
\* ------------------------------------------------------------------------
\* tokens a flipped character can turn token t into: whitespace becomes
\* other whitespace or a stray character, punctuation becomes other
\* punctuation or a stray character, a string or other scalar becomes a
\* different string or loses its closing quote
FlipsOf(t) ==
    IF IsWhitespace(t) THEN ({Newline, Space} \ {t}) \cup {Str("x")}
    ELSE IF IsPunct(t) THEN ({LBrace, RBrace, Colon, Comma} \ {t}) \cup {Str("x")}
    ELSE {Str("x"), Colon} \ {t}

SwapAt(ms, i) ==
    [j \in 1..Len(ms) |-> IF j = i THEN ms[i+1] ELSE IF j = i + 1 THEN ms[i] ELSE ms[j]]

InsertAt(toks, i, t) == SubSeq(toks, 1, i - 1) \o <<t>> \o SubSeq(toks, i, Len(toks))
RemoveAt(toks, i) == SubSeq(toks, 1, i - 1) \o SubSeq(toks, i + 1, Len(toks))

Editable ==
    /\ cliPc = "exited"
    /\ verifyPc = "idle"
    /\ file # NoFile
    /\ tamper = "none"

\* one character of the file is flipped
TamperFlip ==
    /\ Editable
    /\ \E i \in 1..Len(file) : \E t \in FlipsOf(file[i]) :
          file' = [file EXCEPT ![i] = t]
    /\ tamper' = "flip"
    /\ UNCHANGED <<scanVars, console, original, keyVars, verifyVars>>

\* two neighbouring fields of the report change places
TamperReorder ==
    /\ Editable
    /\ \E p \in {ParseSigned(file)} :
          \E i \in 1..(Len(p.report) - 1) :
             file' = PrettySigned(SwapAt(p.report, i), p.signature)
    /\ tamper' = "reorder"
    /\ UNCHANGED <<scanVars, console, original, keyVars, verifyVars>>

\* whitespace between two tokens is added or removed
TamperWhitespace ==
    /\ Editable
    /\ \/ \E i \in 1..(Len(file) + 1) : file' = InsertAt(file, i, Space)
       \/ \E i \in 1..Len(file) : /\ IsWhitespace(file[i])
                                  /\ file' = RemoveAt(file, i)
    /\ tamper' = "whitespace"
    /\ UNCHANGED <<scanVars, console, original, keyVars, verifyVars>>

\* ------------------------------------------------------------------------
\* verify command (cli.ts)
\* ------------------------------------------------------------------------
VerifyOutcomeAnySignature(p) ==
    IF ~p.ok THEN "ERROR"
    ELSE IF ~p.hasSignature \/ ~Truthy(Field(p.signature, "signature"))
    THEN "NOT_SIGNED"
    ELSE "VALID"

\* a handler that also compares the embedded hash with the digest of the
\* re-encoded report
VerifyOutcomeChecksHash(p) ==
    IF ~p.ok THEN "ERROR"
    ELSE IF ~p.hasSignature \/ ~Truthy(Field(p.signature, "signature"))
    THEN "NOT_SIGNED"
    ELSE IF /\ p.hasReport
            /\ Field(p.signature, "hash") = hashData(StringifyObject(p.report))
            /\ verifySignature(StringifyObject(p.report),
                               Field(p.signature, "signature"),
                               Field(p.signature, "publicKey"))
    THEN "VALID"
    ELSE "INVALID"

\* outcome of the handler on a file whose content parses to p: a file that
\* cannot be read or parsed ends in the catch, a missing or empty signature
\* is reported as not signed, otherwise the signature is checked against
\* the re-encoded report
VerifyOutcome(p) ==
    IF ~p.ok THEN "ERROR"
    ELSE IF ~p.hasSignature \/ ~Truthy(Field(p.signature, "signature"))
    THEN "NOT_SIGNED"
    ELSE IF /\ p.hasReport
            /\ verifySignature(StringifyObject(p.report),
                               Field(p.signature, "signature"),
                               Field(p.signature, "publicKey"))
    THEN "VALID"
    ELSE "INVALID"

VerifyExitCode(outcome) == IF outcome = "VALID" THEN 0 ELSE 1

NoVerify == [outcome |-> "none", exitCode |-> -1]

\* the handler reads and parses the file, reports the outcome and exits
VerifyRun ==
    /\ cliPc = "exited"
    /\ verifyPc = "idle"
    /\ \E p \in {ParseSigned(file)} : \E o \in {VerifyOutcome(p)} :
          /\ verifyOut' = [outcome |-> o, exitCode |-> VerifyExitCode(o)]
          /\ console' = console \o
                <<Out("Verifying report signature"),
                  CASE o = "VALID" -> Out("Signature is VALID")
                    [] o = "INVALID" -> Out("Signature is INVALID")
                    [] o = "NOT_SIGNED" -> Err("Error: Report is not signed")
                    [] OTHER -> Err("Error verifying report")>>
    /\ verifyPc' = "done"
    /\ UNCHANGED <<scanVars, fileVars, keyVars>>

\* ------------------------------------------------------------------------
\* Container scanner module (scanners/containers.ts)
\* ------------------------------------------------------------------------
\* most lines a container or process listing holds
MaxLines == 2

DangerousPorts == <<21, 23, 3306, 5432, 6379, 27017>>

\* the ports column of a listing line: whether it is blank, whether it
\* holds '0.0.0.0:' or ':::', and the numbers it holds as whole words
NoPorts == [blank |-> TRUE, allInterfaces |-> FALSE, numbers |-> {}]
PortTexts ==
    { NoPorts,
      [blank |-> FALSE, allInterfaces |-> FALSE, numbers |-> {127, 0, 1, 8080, 80}],
      [blank |-> FALSE, allInterfaces |-> TRUE, numbers |-> {0, 3306}],
      [blank |-> FALSE, allInterfaces |-> TRUE, numbers |-> {6379, 21}] }

\* lines of `docker ps`: complete ones, and one with nothing but an id
ContainerLines ==
    {[id |-> "c1", name |-> "web", image |-> "nginx", status |-> "Up",
      ports |-> p] : p \in PortTexts}
    \cup {[id |-> "c2", name |-> "", image |-> "", status |-> "",
           ports |-> NoPorts]}

PrivilegedIssue ==
    [description |-> "Container running in privileged mode", severity |-> "high"]

RECURSIVE DangerousPortIssues(_, _)
DangerousPortIssues(numbers, ports) ==
    IF ports = <<>> THEN <<>>
    ELSE (IF Head(ports) \in numbers
          THEN <<[description |-> "Dangerous port exposed",
                  port |-> Head(ports), severity |-> "high"]>>
          ELSE <<>>)
         \o DangerousPortIssues(numbers, Tail(ports))

\* issues found in the ports column
PortIssues(p) ==
    IF p.blank THEN <<>>
    ELSE (IF p.allInterfaces
          THEN <<[description |-> "Container has ports exposed to all interfaces",
                  severity |-> "medium"]>>
          ELSE <<>>)
         \o DangerousPortIssues(p.numbers, DangerousPorts)

OrUnknown(x) == IF x = "" THEN "unknown" ELSE x

\* the ContainerInfo of one listing line, given how its inspect ended; a
\* failed or timed-out inspect is skipped
ContainerInfo(line, inspect) ==
    [id |-> OrUnknown(line.id),
     name |-> OrUnknown(line.name),
     image |-> OrUnknown(line.image),
     status |-> OrUnknown(line.status),
     ports |-> line.ports,
     issues |-> (IF inspect = "true" THEN <<PrivilegedIssue>> ELSE <<>>)
                \o PortIssues(line.ports)]

ContainerScanResult(avail, cs) ==
    [dockerAvailable |-> avail, containers |-> cs, totalContainers |-> Len(cs)]

\* the external commands the two modules run
Commands == {"docker --version", "docker ps", "docker inspect",
             "ps aux", "ps aux | grep root"}

\* the timeout option execAsync is given for a command, in milliseconds;
\* 0 when the call passes none (child_process.exec then waits without limit)
ExecTimeout(cmd) ==
    CASE cmd = "docker --version" -> 5000
      [] cmd = "docker ps" -> 10000
      [] cmd = "docker inspect" -> 5000
      [] OTHER -> 0

\* how a run of cmd can end for the caller: the command exits with
\* success or failure, or it never exits; a command that never exits is
\* killed when its timeout expires, and keeps its caller waiting when it
\* has none
ExecOutcomesOf(cmd) ==
    {"ok", "fail"} \cup (IF ExecTimeout(cmd) > 0 THEN {"timeout"} ELSE {"hang"})

NoExec == [c \in Commands |-> "none"]

\* the command cmd has run and ended as o
Ran(cmd, o) == exec' = [exec EXCEPT ![cmd] = o]

VersionErrorRethrown == Rejected

\* scanContainers catches the failure of `docker --version`
VersionErrorCaught == Resolved(ContainerScanResult(FALSE, <<>>))

\* scanContainers is called and runs `docker --version`
ContainersStart ==
    /\ ctPc = "idle"
    /\ procPc = "idle"
    /\ cliPc = "none"
    /\ ctPc' = "version"
    /\ UNCHANGED <<cliVars, mcpVars, procEnv, ctLines, ctContainers, ctResult, subResult,
                   procPc, procResult, exec>>

\* `docker --version` ends; on success listContainers runs `docker ps`
DockerVersion ==
    /\ ctPc = "version"
    /\ \E o \in ExecOutcomesOf("docker --version") :
          /\ Ran("docker --version", o)
          /\ IF o = "ok"
             THEN /\ ctPc' = "ps"
                  /\ UNCHANGED ctResult
             ELSE /\ ctPc' = "done"
                  /\ ctResult' = VersionErrorCaught
    /\ UNCHANGED <<cliVars, mcpVars, procEnv, ctLines, ctContainers, subResult, procPc,
                   procResult>>

\* `docker ps` ends; listContainers catches its failure and returns what
\* it has, otherwise inspects the first listed container
DockerPs ==
    /\ ctPc = "ps"
    /\ \E o \in ExecOutcomesOf("docker ps") :
       \E lines \in SeqsUpTo(ContainerLines, MaxLines) :
          /\ o # "ok" => lines = <<>>
          /\ Ran("docker ps", o)
          /\ IF o = "ok" /\ lines # <<>>
             THEN /\ ctPc' = "inspect"
                  /\ ctLines' = lines
                  /\ UNCHANGED ctResult
             ELSE /\ ctPc' = "done"
                  /\ ctResult' = Resolved(ContainerScanResult(TRUE, ctContainers))
                  /\ UNCHANGED ctLines
    /\ UNCHANGED <<cliVars, mcpVars, procEnv, ctContainers, subResult, procPc, procResult>>

\* `docker inspect` of the next listed container ends; the container is
\* recorded and the loop goes on or listContainers returns
DockerInspect ==
    /\ ctPc = "inspect"
    /\ \E o \in {"true", "false", "fail", "timeout"} :
          LET cs == Append(ctContainers, ContainerInfo(Head(ctLines), o))
          IN /\ Ran("docker inspect", IF o \in {"true", "false"} THEN "ok" ELSE o)
             /\ ctContainers' = cs
             /\ ctLines' = Tail(ctLines)
             /\ IF Tail(ctLines) = <<>>
                THEN /\ ctPc' = "done"
                     /\ ctResult' = Resolved(ContainerScanResult(TRUE, cs))
                ELSE UNCHANGED <<ctPc, ctResult>>
    /\ UNCHANGED <<cliVars, mcpVars, procEnv, subResult, procPc, procResult>>

\* ------------------------------------------------------------------------
\* Process scanner module (scanners/process.ts)
\* ------------------------------------------------------------------------
SUSPICIOUS_PATTERNS ==
    << [description |-> "Netcat listener (reverse shell)", severity |-> "critical"],
       [description |-> "Ncat listener (reverse shell)", severity |-> "critical"],
       [description |-> "Socat (potential reverse shell)", severity |-> "high"],
       [description |-> "Perl socket (potential reverse shell)", severity |-> "high"],
       [description |-> "Python socket (potential reverse shell)", severity |-> "high"],
       [description |-> "Bash reverse shell", severity |-> "critical"] >>

SECRET_PATTERNS ==
    <<"AWS Access Key", "AWS Secret", "GitHub Token", "API Key", "Password",
      "Secret", "Token", "Private Key">>

\* most root processes findPrivilegedProcesses reports
PrivilegedLimit == 10

\* lines of `ps`: the patterns of SUSPICIOUS_PATTERNS each matches, and
\* whether it holds '/tmp/' and 'grep'
PsLines ==
    { [pid |-> "1", user |-> "root", matches |-> {}, tmp |-> FALSE, grep |-> FALSE],
      [pid |-> "41", user |-> "www", matches |-> {1}, tmp |-> FALSE, grep |-> FALSE],
      [pid |-> "42", user |-> "root", matches |-> {3, 5}, tmp |-> TRUE, grep |-> FALSE],
      [pid |-> "43", user |-> "root", matches |-> {}, tmp |-> TRUE, grep |-> TRUE] }

RECURSIVE PatternFindings(_, _)
\* one finding per pattern of the table, from index i on, that the line matches
PatternFindings(line, i) ==
    IF i > Len(SUSPICIOUS_PATTERNS) THEN <<>>
    ELSE (IF i \in line.matches
          THEN <<[pid |-> line.pid, user |-> line.user,
                  issue |-> SUSPICIOUS_PATTERNS[i].description,
                  severity |-> SUSPICIOUS_PATTERNS[i].severity]>>
          ELSE <<>>)
         \o PatternFindings(line, i + 1)

LineFindings(line) ==
    PatternFindings(line, 1)
    \o (IF line.tmp /\ ~line.grep
        THEN <<[pid |-> line.pid, user |-> line.user,
                issue |-> "Process running from /tmp directory",
                severity |-> "high"]>>
        ELSE <<>>)

\* what findSuspiciousProcesses returns for the lines of `ps aux`
SuspiciousOf(lines) == Flatten([i \in 1..Len(lines) |-> LineFindings(lines[i])])

\* what findPrivilegedProcesses returns for the root lines of `ps aux`
PrivilegedOf(lines) ==
    LET kept == SelectSeq(lines, LAMBDA l : ~l.grep)
        first == SubSeq(kept, 1, IF Len(kept) < PrivilegedLimit
                                 THEN Len(kept) ELSE PrivilegedLimit)
    IN [i \in 1..Len(first) |->
          [pid |-> first[i].pid, user |-> "root",
           issue |-> "Running with root privileges", severity |-> "medium"]]

\* environment variables of the scanning process: the name, the patterns
\* of SECRET_PATTERNS the name matches, and the value
EnvVars ==
    { [name |-> "PATH", matches |-> {}, value |-> "/usr/bin"],
      [name |-> "AWS_SECRET_TOKEN", matches |-> {2, 6, 7}, value |-> "hunter2"],
      [name |-> "API_KEY", matches |-> {4}, value |-> ""] }

\* Object.entries(process.env): every name occurs once
Environments ==
    {e \in SeqsUpTo(EnvVars, MaxLines) :
        \A i, j \in 1..Len(e) : e[i].name = e[j].name => i = j}

OwnPid == "100"

\* the first pattern of the table the variable matches
FirstMatch(v) == CHOOSE i \in v.matches : \A j \in v.matches : i <= j

\* a scan without the break: one finding for every pattern that matches
SecretsOfEveryPattern(env) ==
    LET hits == SelectSeq(env, LAMBDA v : v.matches # {} /\ v.value # "")
    IN Flatten([i \in 1..Len(hits) |->
          [k \in 1..Cardinality(hits[i].matches) |->
             [pid |-> OwnPid, command |-> "current-process",
              secret |-> hits[i].name,
              type |-> SECRET_PATTERNS[FirstMatch(hits[i])]]]])

\* what scanEnvironmentVariables returns for the environment env
SecretsOf(env) ==
    LET hits == SelectSeq(env, LAMBDA v : v.matches # {} /\ v.value # "")
    IN [i \in 1..Len(hits) |->
          [pid |-> OwnPid, command |-> "current-process",
           secret |-> hits[i].name, type |-> SECRET_PATTERNS[FirstMatch(hits[i])]]]

\* the sub-scans catch the failure of `ps` and return what they have
PsErrorCaught == Resolved(<<>>)

\* scanProcesses is called and starts its three sub-scans
ProcessesStart ==
    /\ procPc = "idle"
    /\ ctPc = "idle"
    /\ cliPc = "none"
    /\ procPc' = "joining"
    /\ procSub' = [s \in ProcessSubScans |-> "running"]
    /\ UNCHANGED <<host, opts, clock, cliPc, task, results, outOfOrder,
                   report, signed, exitCode, console, fileVars, keyVars,
                   verifyVars, ctPc, ctLines, ctContainers, ctResult,
                   subResult, procResult, exec, mcpVars, procEnv>>

\* sub-scan s settles with v
SubScanSettle(s, v) ==
    /\ procPc = "joining"
    /\ procSub[s] = "running"
    /\ procSub' = [procSub EXCEPT ![s] = "done"]
    /\ subResult' = [subResult EXCEPT ![s] = v]
    /\ UNCHANGED <<host, opts, clock, cliPc, task, results, outOfOrder,
                   report, signed, exitCode, console, fileVars, keyVars,
                   verifyVars, ctPc, ctLines, ctContainers, ctResult, procPc,
                   procResult, mcpVars>>

\* the command cmd of sub-scan s never exits and no timeout ends the wait:
\* the sub-scan stays where it is
SubScanHangs(s, cmd) ==
    /\ procPc = "joining"
    /\ procSub[s] = "running"
    /\ Ran(cmd, "hang")
    /\ UNCHANGED <<cliVars, mcpVars, procEnv, ctPc, ctLines, ctContainers, ctResult, subResult,
                   procPc, procResult>>

\* the command cmd of sub-scan s ended as o with the lines read from it
PsEnds(s, cmd, o, value) ==
    /\ exec[cmd] # "hang"
    /\ IF o = "hang"
       THEN SubScanHangs(s, cmd)
       ELSE /\ Ran(cmd, o)
            /\ SubScanSettle(s, IF o = "ok" THEN Resolved(value)
                                ELSE PsErrorCaught)
            /\ UNCHANGED procEnv

\* `ps aux` of findSuspiciousProcesses ends, or never does
FindSuspiciousProcesses ==
    \E o \in ExecOutcomesOf("ps aux") : \E lines \in SeqsUpTo(PsLines, MaxLines) :
       /\ o # "ok" => lines = <<>>
       /\ PsEnds("findSuspiciousProcesses", "ps aux", o, SuspiciousOf(lines))

\* `ps aux | grep "^root"` of findPrivilegedProcesses ends, or never does
FindPrivilegedProcesses ==
    \E o \in ExecOutcomesOf("ps aux | grep root") :
       \E lines \in SeqsUpTo({l \in PsLines : l.user = "root"}, MaxLines) :
          /\ o # "ok" => lines = <<>>
          /\ PsEnds("findPrivilegedProcesses", "ps aux | grep root", o,
                    PrivilegedOf(lines))

\* scanEnvironmentVariables runs over the environment of the process
ScanEnvironmentVariables ==
    \E env \in Environments :
       /\ procEnv' = env
       /\ SubScanSettle("scanEnvironmentVariables", Resolved(SecretsOf(env)))
       /\ UNCHANGED exec

\* Promise.all of the three sub-scans settles: it rejects when one of
\* them rejected, otherwise scanProcesses returns the three lists
ProcessesSettle ==
    /\ procPc = "joining"
    /\ ProcessesJoined(procSub)
    /\ procPc' = "done"
    /\ procResult' =
         IF \E s \in ProcessSubScans : subResult[s] = Rejected
         THEN Rejected
         ELSE Resolved([suspiciousProcesses |-> subResult["findSuspiciousProcesses"].value,
                        privilegedProcesses |-> subResult["findPrivilegedProcesses"].value,
                        secretsInEnv |-> subResult["scanEnvironmentVariables"].value])
    /\ UNCHANGED <<cliVars, mcpVars, procEnv, ctPc, ctLines, ctContainers, ctResult, subResult,
                   exec>>

\* ------------------------------------------------------------------------
\* keys command (cli.ts), --generate, for process p
\* ------------------------------------------------------------------------
\* the handler announces the generation and calls ensureKeysExist
KeysStart(p) ==
    /\ keysPc[p] = "start"
    /\ keysPc' = [keysPc EXCEPT ![p] = "ensuring"]
    /\ ensPc' = [ensPc EXCEPT ![p] = "check"]
    /\ console' = Append(console, Out("Generating new Ed25519 key pair"))
    /\ UNCHANGED <<scanVars, fileVars, keyStore, storeWritable, generated,
                   ensKeys, ensTrace, verifyVars>>

\* ensureKeysExist has settled: the key locations are printed, or the
\* error is reported and the process exits with code 1
KeysDone(p) ==
    /\ keysPc[p] = "ensuring"
    /\ ensPc[p] \in {"done", "failed"}
    /\ keysPc' = [keysPc EXCEPT ![p] = ensPc[p]]
    /\ console' = Append(console,
                         IF ensPc[p] = "done"
                         THEN Out("Keys generated and saved")
                         ELSE Err("Error managing keys"))
    /\ UNCHANGED <<scanVars, fileVars, keyStore, storeWritable, generated,
                   ensPc, ensKeys, ensTrace, verifyVars>>

\* ------------------------------------------------------------------------
\* The command-line run: scan, edits of the output file, verify
\* ------------------------------------------------------------------------
\* ------------------------------------------------------------------------
\* MCP server: CallTool handler of vigil.scan and vigil.scan.signed
\* ------------------------------------------------------------------------
NoArg == "none"      \* an argument the request leaves out
NoCall == [none |-> TRUE]
NoScan == [none |-> TRUE]
NoResponse == [none |-> TRUE]

ScanTools == {"vigil.scan", "vigil.scan.signed"}
Targets == {"host", "repo", "cluster"}
RepoUrls == {NoArg, "", "https://example.org/repo"}
\* dry_run as the request carries it: left out, a boolean, or JSON null
DryRuns == {NoArg, "true", "false", "null"}
ToolArgs == [target : Targets, repo_url : RepoUrls, dry_run : DryRuns]

\* !repo_url
NoRepoUrl(args) == args.repo_url \in {NoArg, ""}

\* const { target, repo_url, dry_run = true } = args: the default stands
\* in only for a member that is left out; if (dry_run) then tests the
\* value for truthiness
DryRun(args) == args.dry_run \in {NoArg, "true"}

\* the arguments `vigil-scan` is run with
CmdArgs(args) ==
    (IF args.target = "host" THEN <<"scan">>
     ELSE <<"scan", "--repo", args.repo_url>>)
    \o (IF DryRun(args) THEN <<"--dry-run">> ELSE <<>>)

\* what `vigil-scan` printed: JSON with findings and summary, JSON without
\* them, or plain text
ScanStdouts ==
    { [format |-> "json", findings |-> "open ports", summary |-> "high"],
      [format |-> "json", findings |-> NoArg, summary |-> NoArg],
      [format |-> "text", findings |-> NoArg, summary |-> NoArg] }

UnknownSummary == [risk_level |-> "unknown", total_findings |-> 0]

parseScanOutput(stdout, target, ts) ==
    IF stdout.format = "json"
    THEN [timestamp  |-> ts,
          target     |-> target,
          findings   |-> IF stdout.findings # NoArg
                         THEN [found |-> stdout.findings] ELSE [empty |-> TRUE],
          summary    |-> IF stdout.summary # NoArg
                         THEN [risk_level |-> stdout.summary, total_findings |-> 1]
                         ELSE UnknownSummary,
          raw_output |-> stdout]
    ELSE [timestamp  |-> ts,
          target     |-> target,
          findings   |-> [empty |-> TRUE],
          summary    |-> UnknownSummary,
          raw_output |-> stdout]

\* the second argument of parseScanOutput
ScanTarget(args) ==
    IF args.target = "host" THEN "localhost"
    ELSE IF ~NoRepoUrl(args) THEN args.repo_url ELSE "unknown"

\* a response whose one content item is the text; isError is FALSE where
\* the handler leaves the member out
TextResponse(text, isErr) == [text |-> text, isError |-> isErr]

\* JSON.stringify(value, null, 2) of a response body
JsonText(value) == [json |-> value]

InvalidTargetResponse(target) ==
    TextResponse([msg |-> "Error: target must be either host or repo",
                  got |-> target], TRUE)

RepoUrlRequiredResponse ==
    TextResponse([msg |-> "Error: repo_url is required when target is 'repo'"],
                 TRUE)

\* the outer catch: the scanner is not installed, or it failed
ScanFailureResponse(o, stderr) ==
    IF o = "ENOENT"
    THEN TextResponse([msg |-> "Error: vigil-scan command not found"], TRUE)
    ELSE TextResponse([msg |-> "Error running vigil-scan",
                       stderr |-> stderr], TRUE)

\* the request the signer script is run with
SignRequest(scan, target) ==
    [payload |-> scan, purpose |-> "scan_verification",
     scan_metadata |-> [tool |-> "vigil-scan", target |-> target]]

\* how the signing step can end: the script prints a proof, prints
\* something that is not JSON, cannot be started, or exits with an error
SignOutcomes == {"ok", "unparsable", "ENOENT", "fail"}

\* the proof scripts/sign_proof.py prints for a request
ProofOf(req) == [proof_of |-> req.payload, purpose |-> req.purpose]

\* signError.message
SignErrorMessage(o) ==
    CASE o = "unparsable" -> "Unexpected token in JSON"
      [] o = "ENOENT" -> "spawn python3 ENOENT"
      [] o = "fail" -> "Command failed: python3 sign_proof.py"

\* a signed result that carries no proof
SignedResponseUnproven(scan, proof) ==
    TextResponse(JsonText([scan_result |-> scan,
                           is_tamper_evident |-> TRUE]), FALSE)

SignedResponse(scan, proof) ==
    TextResponse(JsonText([scan_result |-> scan,
                           cryptographic_proof |-> proof,
                           is_tamper_evident |-> TRUE]), FALSE)

SigningWarning ==
    "Scan completed successfully but cryptographic signing failed. Results are not tamper-evident."

\* a handler that answers a failed signing with an error message
SignFailureResponseAsError(scan, message) ==
    TextResponse([msg |-> "Scan completed but signing failed",
                  error |-> message, scan |-> scan], TRUE)

\* a handler that answers a failed signing without the scan result
SignFailureResponseNoScan(scan, message) ==
    TextResponse(JsonText([signing_error |-> message,
                           is_tamper_evident |-> FALSE,
                           warning |-> SigningWarning]), FALSE)

\* the inner catch: the scan succeeded and signing failed
SignFailureResponse(scan, message) ==
    TextResponse(JsonText([scan_result |-> scan,
                           signing_error |-> message,
                           is_tamper_evident |-> FALSE,
                           warning |-> SigningWarning]), FALSE)

McpInit ==
    /\ mcpPc = "idle"
    /\ mcpCall = NoCall
    /\ mcpRan = <<>>
    /\ mcpScan = NoScan
    /\ mcpResponse = NoResponse

\* a handler that runs the scanner whatever the arguments are
CallToolUnvalidated ==
    /\ mcpPc = "idle"
    /\ \E name \in ScanTools, args \in ToolArgs :
          mcpCall' = [name |-> name, args |-> args]
    /\ mcpPc' = "scanning"
    /\ UNCHANGED <<mcpResponse, mcpRan, mcpScan, monVars, cliVars, modVars>>

\* a request for one of the two scan tools arrives and is validated
CallTool ==
    /\ mcpPc = "idle"
    /\ \E name \in ScanTools, args \in ToolArgs :
          /\ mcpCall' = [name |-> name, args |-> args]
          /\ IF args.target \notin {"host", "repo"}
             THEN /\ mcpResponse' = InvalidTargetResponse(args.target)
                  /\ mcpPc' = "done"
             ELSE IF args.target = "repo" /\ NoRepoUrl(args)
             THEN /\ mcpResponse' = RepoUrlRequiredResponse
                  /\ mcpPc' = "done"
             ELSE /\ mcpPc' = "scanning"
                  /\ UNCHANGED mcpResponse
    /\ UNCHANGED <<mcpRan, mcpScan, monVars, cliVars, modVars>>

\* execFileAsync("vigil-scan", cmdArgs) settles
VigilScan ==
    /\ mcpPc = "scanning"
    /\ \E o \in {"ok", "ENOENT", "fail"}, stdout \in ScanStdouts,
          stderr \in BOOLEAN :
          /\ o # "ok" => stdout.format = "text"
          /\ o # "fail" => ~stderr
          /\ mcpRan' = Append(mcpRan, [file |-> "vigil-scan",
                                       args |-> CmdArgs(mcpCall.args),
                                       outcome |-> o, stdout |-> stdout])
          /\ IF o = "ok"
             THEN /\ mcpScan' = parseScanOutput(stdout,
                                     ScanTarget(mcpCall.args), clock)
                  /\ IF mcpCall.name = "vigil.scan.signed"
                     THEN /\ mcpPc' = "signing"
                          /\ UNCHANGED mcpResponse
                     ELSE /\ mcpPc' = "done"
                          /\ mcpResponse' =
                               TextResponse(JsonText(mcpScan'), FALSE)
             ELSE /\ mcpPc' = "done"
                  /\ mcpResponse' = ScanFailureResponse(o, stderr)
                  /\ UNCHANGED mcpScan
    /\ UNCHANGED <<mcpCall, monVars, cliVars, modVars>>

\* execFileAsync("python3", [scriptPath, request]) settles and its output
\* is parsed
SignProof ==
    /\ mcpPc = "signing"
    /\ \E o \in SignOutcomes :
          \E req \in {SignRequest(mcpScan, mcpCall.args.target)} :
             /\ mcpRan' = Append(mcpRan, [file |-> "python3", args |-> <<req>>,
                                          outcome |-> o, stdout |-> NoArg])
             /\ mcpResponse' =
                  IF o = "ok"
                  THEN SignedResponse(mcpScan, ProofOf(req))
                  ELSE SignFailureResponse(mcpScan, SignErrorMessage(o))
    /\ mcpPc' = "done"
    /\ UNCHANGED <<mcpCall, mcpScan, monVars, cliVars, modVars>>

\* ------------------------------------------------------------------------
\* Vigil monitoring MCP server (src/index.ts): CallTool handler
\* ------------------------------------------------------------------------
MonTools ==
    {"report_replica", "flush_replica", "list_announcements",
     "insert_announcement", "retract_announcement", "list_prober_alerts",
     "get_alert_ignore_rules", "update_alert_ignore_rules"}

UnknownTool == "restart_probe"

\* the zod schema of each tool: its members and the kind of value each
\* must hold; load is an object with cpu >= 0 and 0 <= ram <= 1
ArgsSchema(name) ==
    CASE name = "report_replica" ->
           [vigilUrl |-> "string", reporterToken |-> "string",
            probeId |-> "string", nodeId |-> "string",
            replicaId |-> "string", interval |-> "number", load |-> "load"]
      [] name = "flush_replica" ->
           [vigilUrl |-> "string", reporterToken |-> "string",
            probeId |-> "string", nodeId |-> "string",
            replicaId |-> "string"]
      [] name = "insert_announcement" ->
           [vigilUrl |-> "string", managerToken |-> "string",
            title |-> "string", text |-> "string"]
      [] name = "retract_announcement" ->
           [vigilUrl |-> "string", managerToken |-> "string",
            announcementId |-> "string"]
      [] name = "update_alert_ignore_rules" ->
           [vigilUrl |-> "string", managerToken |-> "string",
            remindersSeconds |-> "number"]
      [] OTHER ->
           [vigilUrl |-> "string", managerToken |-> "string"]

\* kinds of value a member can hold in place of the kind the schema asks
WrongKinds(kind) ==
    CASE kind = "string" -> {"number", "null"}
      [] kind = "number" -> {"string", "null"}
      [] kind = "load" -> {"string", "load with ram above 1",
                           "load with negative cpu"}

\* arguments of a request for the tool: the kind of value of each member
\* that is present; every member right, one member left out, or one member
\* of a wrong kind
ArgsFor(name) ==
    LET s == ArgsSchema(name)
    IN {s}
       \cup {[g \in DOMAIN s \ {f} |-> s[g]] : f \in DOMAIN s}
       \cup UNION {{[s EXCEPT ![f] = k] : k \in WrongKinds(s[f])} :
                      f \in DOMAIN s}

\* Schema.parse(args) returns; it throws a ZodError otherwise
Parses(name, args) ==
    \A f \in DOMAIN ArgsSchema(name) :
       f \in DOMAIN args /\ args[f] = ArgsSchema(name)[f]

\* the call of makeRequest each tool makes: method, route, the member
\* that holds the token, and whether a body is sent
RequestOf(name) ==
    CASE name = "report_replica" ->
           [method |-> "POST", route |-> "/reporter/probe/node/",
            token |-> "reporterToken", body |-> TRUE]
      [] name = "flush_replica" ->
           [method |-> "DELETE", route |-> "/reporter/probe/node/replica/",
            token |-> "reporterToken", body |-> FALSE]
      [] name = "list_announcements" ->
           [method |-> "GET", route |-> "/manager/announcements/",
            token |-> "managerToken", body |-> FALSE]
      [] name = "insert_announcement" ->
           [method |-> "POST", route |-> "/manager/announcement/",
            token |-> "managerToken", body |-> TRUE]
      [] name = "retract_announcement" ->
           [method |-> "DELETE", route |-> "/manager/announcement/id/",
            token |-> "managerToken", body |-> FALSE]
      [] name = "list_prober_alerts" ->
           [method |-> "GET", route |-> "/manager/prober/alerts/",
            token |-> "managerToken", body |-> FALSE]
      [] name = "get_alert_ignore_rules" ->
           [method |-> "GET", route |-> "/manager/prober/alerts/ignored/",
            token |-> "managerToken", body |-> FALSE]
      [] name = "update_alert_ignore_rules" ->
           [method |-> "PUT", route |-> "/manager/prober/alerts/ignored/",
            token |-> "managerToken", body |-> TRUE]

\* how fetch can end: a JSON body, an empty body, a body that is not
\* JSON, a status that is not ok, or no response at all
FetchOutcomes == {"json", "empty", "text", "http error", "network error"}

Thrown(message) == [thrown |-> TRUE, message |-> message]
Returned(result) == [thrown |-> FALSE, result |-> result]

\* what makeRequest returns or throws for an outcome of fetch
makeRequest(o) ==
    CASE o = "json" -> Returned([parsed |-> TRUE])
      [] o = "empty" -> Returned([success |-> TRUE])
      [] o = "text" -> Returned([success |-> TRUE, response |-> "text"])
      [] o = "http error" -> Thrown("HTTP status")
      [] o = "network error" -> Thrown("fetch failed")

NoMonCall == [none |-> TRUE]
NoMonResult == [none |-> TRUE]

MonInit ==
    /\ monPc = "idle"
    /\ monCall = NoMonCall
    /\ monRequests = <<>>
    /\ monResult = NoMonResult

\* a handler that calls makeRequest without parsing the arguments
MonCallToolUnparsed ==
    /\ monPc = "idle"
    /\ \E name \in MonTools :
          \E args \in ArgsFor(name) :
             monCall' = [name |-> name, args |-> args]
    /\ monPc' = "requesting"
    /\ UNCHANGED <<monRequests, monResult, mcpPc, mcpCall, mcpRan, mcpScan,
                   mcpResponse, cliVars, modVars>>

\* a request arrives: the switch picks the tool and its schema parses the
\* arguments; an unknown name and a ZodError are rethrown
MonCallTool ==
    /\ monPc = "idle"
    /\ \E name \in MonTools \cup {UnknownTool} :
          \E args \in ArgsFor(name) :
             /\ monCall' = [name |-> name, args |-> args]
             /\ IF name \notin MonTools
                THEN /\ monResult' = Thrown("Unknown tool")
                     /\ monPc' = "done"
                ELSE IF ~Parses(name, args)
                THEN /\ monResult' = Thrown("Invalid arguments")
                     /\ monPc' = "done"
                ELSE /\ monPc' = "requesting"
                     /\ UNCHANGED monResult
    /\ UNCHANGED <<monRequests, mcpPc, mcpCall, mcpRan, mcpScan, mcpResponse,
                   cliVars, modVars>>

\* makeRequest sends the request with fetch and the handler returns its
\* result, or the error makeRequest threw is rethrown
MonFetch ==
    /\ monPc = "requesting"
    /\ monRequests' = Append(monRequests, RequestOf(monCall.name))
    /\ \E o \in FetchOutcomes : monResult' = makeRequest(o)
    /\ monPc' = "done"
    /\ UNCHANGED <<monCall, mcpPc, mcpCall, mcpRan, mcpScan, mcpResponse,
                   cliVars, modVars>>

vars == <<scanVars, console, fileVars, keyVars, verifyVars, modVars,
          mcpVars>>

ModInit ==
    /\ ctPc = "idle"
    /\ ctLines = <<>>
    /\ ctContainers = <<>>
    /\ ctResult = Pending
    /\ subResult = [s \in ProcessSubScans |-> Pending]
    /\ procPc = "idle"
    /\ procResult = Pending
    /\ exec = NoExec
    /\ procEnv = <<>>

InitCommon ==
    /\ clock = 0
    /\ task = IdleTasks
    /\ procSub = IdleSubScans
    /\ results = NoResults
    /\ outOfOrder = FALSE
    /\ report = NoReport
    /\ signed = NoSigned
    /\ console = <<>>
    /\ exitCode = -1
    /\ file = NoFile
    /\ original = NoFile
    /\ tamper = "none"
    /\ generated = 0
    /\ ensPc = [c \in Callers |-> "idle"]
    /\ ensKeys = [c \in Callers |-> NoKeys]
    /\ ensTrace = <<>>
    /\ verifyPc = "idle"
    /\ verifyOut = NoVerify
    /\ McpInit
    /\ MonInit

\* a key directory that already holds a keypair is never written
InitKeyStore ==
    /\ keyStore \in {NoKeys, KeyPair(0)}
    /\ storeWritable \in BOOLEAN
    /\ keyStore # NoKeys => storeWritable

Init ==
    /\ InitCommon
    /\ InitKeyStore
    /\ host \in ScanHosts
    /\ opts \in [json : BOOLEAN, sign : BOOLEAN, output : BOOLEAN]
    /\ cliPc = "start"
    /\ keysPc = [p \in KeyProcs |-> "idle"]
    /\ ModInit

ScanNext ==
    \/ ScanStart
    \/ \E s \in ProcessSubScans : SubScanComplete(s)
    \/ \E d \in DomainSet : ModuleComplete(d)
    \/ ScanJoin
    \/ ScanAbort
    \/ Tick
    \/ \E c \in Callers : EnsureCheck(c)
    \/ \E c \in Callers : EnsureCreate(c)
    \/ ScanSign
    \/ ScanOutput
    \/ ScanExit

Next ==
    \/ ScanNext /\ UNCHANGED <<modVars, mcpVars>>
    \/ (TamperFlip \/ TamperReorder \/ TamperWhitespace \/ VerifyRun)
          /\ UNCHANGED <<modVars, mcpVars>>

Spec == Init /\ [][Next]_vars

\* ------------------------------------------------------------------------
\* The container and the process module, each run on its own
\* ------------------------------------------------------------------------
InitModules ==
    /\ InitCommon
    /\ ModInit
    /\ host = HostOf(<<>>, FALSE)
    /\ opts = [json |-> FALSE, sign |-> FALSE, output |-> FALSE]
    /\ cliPc = "none"
    /\ keysPc = [p \in KeyProcs |-> "idle"]
    /\ keyStore = NoKeys
    /\ storeWritable = TRUE

NextModules ==
    \/ ContainersStart
    \/ DockerVersion
    \/ DockerPs
    \/ DockerInspect
    \/ ProcessesStart
    \/ FindSuspiciousProcesses
    \/ FindPrivilegedProcesses
    \/ ScanEnvironmentVariables
    \/ ProcessesSettle

SpecModules == InitModules /\ [][NextModules]_vars

\* ------------------------------------------------------------------------
\* Concurrent use of the key store: keys --generate processes next to a scan
\* ------------------------------------------------------------------------
InitKeys ==
    /\ InitCommon
    /\ ModInit
    /\ InitKeyStore
    /\ host = HostOf(<<>>, FALSE)
    /\ opts = [json |-> FALSE, sign |-> TRUE, output |-> FALSE]
    /\ cliPc \in {"none", "start"}
    /\ keysPc \in [KeyProcs -> {"idle", "start"}]
    /\ Cardinality({p \in KeyProcs : keysPc[p] = "start"})
          + (IF cliPc = "start" THEN 1 ELSE 0) <= MaxKeyProcs

NextKeys ==
    \/ ScanNext /\ UNCHANGED <<modVars, mcpVars>>
    \/ \E p \in KeyProcs : (KeysStart(p) \/ KeysDone(p)) /\ UNCHANGED <<modVars, mcpVars>>

SpecKeys == InitKeys /\ [][NextKeys]_vars

\* ------------------------------------------------------------------------
\* The risk aggregator applied to the results of every bounded host
\* ------------------------------------------------------------------------
InitRisk ==
    /\ InitCommon
    /\ ModInit
    /\ host \in Hosts
    /\ opts = [json |-> FALSE, sign |-> FALSE, output |-> FALSE]
    /\ cliPc = "none"
    /\ keysPc = [p \in KeyProcs |-> "idle"]
    /\ keyStore = NoKeys
    /\ storeWritable = TRUE

\* the six results of the host are joined and the report is assembled
Aggregate ==
    /\ cliPc = "none"
    /\ report = NoReport
    /\ results' = [i \in 1..Len(Domains) |-> ModuleResult(Domains[i], host)]
    /\ report' = AssembleReport(results', clock)
    /\ UNCHANGED <<host, opts, clock, cliPc, task, procSub, outOfOrder,
                   signed, exitCode, console, fileVars, keyVars, verifyVars,
                   modVars, mcpVars>>

SpecRisk == InitRisk /\ [][Aggregate]_vars

\* ------------------------------------------------------------------------
\* The MCP server answering one request
\* ------------------------------------------------------------------------
InitMcp ==
    /\ InitCommon
    /\ ModInit
    /\ host = HostOf(<<>>, FALSE)
    /\ opts = [json |-> FALSE, sign |-> FALSE, output |-> FALSE]
    /\ cliPc = "none"
    /\ keysPc = [p \in KeyProcs |-> "idle"]
    /\ keyStore = NoKeys
    /\ storeWritable = TRUE

NextMcp ==
    \/ CallTool
    \/ VigilScan
    \/ SignProof

SpecMcp == InitMcp /\ [][NextMcp]_vars

\* ------------------------------------------------------------------------
\* The monitoring server answering one request
\* ------------------------------------------------------------------------
NextMonitor ==
    \/ MonCallTool
    \/ MonFetch

SpecMonitor == InitMcp /\ [][NextMonitor]_vars

\* ========================================================================
\* Properties
\* ========================================================================
ScanRan == cliPc \in {"output", "exit", "exited"} /\ report # NoReport
Signed == Truthy(signed.signature)
Verified == verifyPc = "done"
Parsed == ParseSigned(file)
ParsedOriginal == ParseSigned(original)

\* C1 - round trip: whenever scan has signed a report R with the private
\* key of the keypair, verifying the same R against the signature it
\* produced with the public key of that keypair succeeds.
C1_RoundTrip ==
    (ScanRan /\ Signed) =>
        verifySignature(ReportJson(report), signed.signature, signed.publicKey)

C1_Witness == cliPc = "exited" /\ report # NoReport /\ Signed /\ exitCode = 0

CheckedPartsIntact ==
    /\ Parsed.ok
    /\ Parsed.report = ParsedOriginal.report
    /\ Field(Parsed.signature, "signature")
         = Field(ParsedOriginal.signature, "signature")
    /\ Field(Parsed.signature, "publicKey")
         = Field(ParsedOriginal.signature, "publicKey")

SlotSeverities ==
    UNION {{s.findings[i] : i \in 1..Len(s.findings)} :
             s \in {report.network, report.processes, report.filesystem,
                    report.dependencies, report.configuration,
                    report.containers}}

SlotFindingCount ==
    Len(report.network.findings) + Len(report.processes.findings)
    + Len(report.filesystem.findings) + Len(report.dependencies.findings)
    + Len(report.configuration.findings) + Len(report.containers.findings)

C5_TotalIsSumOfCounts ==
    report # NoReport =>
        LET sm == report.summary
        IN /\ sm.totalIssues = sm.criticalIssues + sm.highIssues
                                 + sm.mediumIssues + sm.lowIssues
           /\ sm.totalIssues = SlotFindingCount
           /\ sm.mediumIssues >=
                CountOf(report.dependencies.findings, "moderate")

C5_Witness ==
    /\ report # NoReport
    /\ CountOf(report.dependencies.findings, "moderate") = 1
    /\ report.summary.totalIssues = 2
    /\ report.summary.mediumIssues >= 1

\* C6 - exclusive creation of the key files: every caller of
\* ensureKeysExist that has returned, however the callers interleave,
\* holds the one keypair that is on disk, and a keypair on disk is never
\* replaced.
C6_ExclusiveCreation ==
    /\ [](\A c \in Callers :
            ensPc[c] = "done" => (keyStore # NoKeys /\ ensKeys[c] = keyStore))
    /\ [][keyStore # NoKeys => keyStore' = keyStore]_vars

\* two callers both found no keypair, both generated one, and both returned
C6_Witness ==
    /\ generated >= 2
    /\ \E c \in Callers : \E e \in Callers \ {c} :
          ensPc[c] = "done" /\ ensPc[e] = "done"

C8_FixedSlots ==
    report # NoReport =>
        /\ report.network = ModuleResult("network", host)
        /\ report.processes = ModuleResult("processes", host)
        /\ report.filesystem = ModuleResult("filesystem", host)
        /\ report.dependencies = ModuleResult("dependencies", host)
        /\ report.configuration = ModuleResult("configuration", host)
        /\ report.containers = ModuleResult("containers", host)
        /\ \A i \in 1..Len(Domains) : ReportSlots(report)[i].domain = Domains[i]

C8_Witness ==
    /\ cliPc \in {"signing", "output", "exit"}
    /\ report # NoReport
    /\ outOfOrder
    /\ report.dependencies.findings # <<>>

\* C9 - full join: the report is assembled, and signing and output start,
\* only when all six modules have completed; the process module itself
\* completes only when its three sub-scans have; an empty or unavailable
\* result of one module does not keep the others from completing.
C9_FullJoin ==
    /\ cliPc \in {"signing", "output", "exit"} =>
          /\ \A d \in DomainSet : task[d] = "done"
          /\ \A i \in 1..Len(Domains) : results[i] # NoResult
          /\ report # NoReport
    /\ task["processes"] = "done" =>
          \A s \in ProcessSubScans : procSub[s] = "done"
    /\ (report # NoReport \/ signed # NoSigned
          \/ ensPc[ScanCaller] # "idle" \/ file # NoFile)
       => cliPc \in {"signing", "output", "exit", "exited"}

C9_Witness ==
    /\ cliPc = "signing"
    /\ ~host.docker
    /\ results[DomainIndex("containers")] = DomainResult("containers", <<>>, FALSE)
    /\ \A d \in DomainSet : task[d] = "done"

Wellformed(findings) ==
    \A i \in 1..Len(findings) : findings[i].severity \in Severity

WellformedContainers(v) ==
    /\ DOMAIN v = {"dockerAvailable", "containers", "totalContainers"}
    /\ v.dockerAvailable \in BOOLEAN
    /\ v.totalContainers = Len(v.containers)
    /\ \A i \in 1..Len(v.containers) :
          /\ v.containers[i].id # "" /\ v.containers[i].name # ""
          /\ Wellformed(v.containers[i].issues)

WellformedProcesses(v) ==
    /\ DOMAIN v = {"suspiciousProcesses", "privilegedProcesses", "secretsInEnv"}
    /\ Wellformed(v.suspiciousProcesses)
    /\ Wellformed(v.privilegedProcesses)
    /\ Len(v.privilegedProcesses) <= PrivilegedLimit
    /\ \A i \in 1..Len(v.secretsInEnv) : v.secretsInEnv[i].pid = OwnPid

\* C10 - no error leaves a scanner module: however docker --version,
\* docker ps, docker inspect and ps end (success, failure, timeout),
\* scanContainers and scanProcesses never reject, and what they resolve
\* with is a well-formed result.
C10_ModulesNeverReject ==
    /\ ctResult # Rejected
    /\ procResult # Rejected
    /\ \A s \in ProcessSubScans : subResult[s] # Rejected
    /\ ctPc = "done" =>
          ctResult.settled = "resolved" /\ WellformedContainers(ctResult.value)
    /\ procPc = "done" =>
          procResult.settled = "resolved" /\ WellformedProcesses(procResult.value)

\* docker --version failed or timed out and scanContainers still resolved
C10_Witness ==
    /\ ctPc = "done"
    /\ ctResult.settled = "resolved"
    /\ ~ctResult.value.dockerAvailable

\* the container runtime could not be reached: its binary did not run, or
\* the listing of the containers failed
RuntimeUnreachable ==
    \/ exec["docker --version"] \in {"fail", "timeout"}
    \/ exec["docker ps"] \in {"fail", "timeout"}

\* C11 - whenever the container runtime is unreachable (the binary is
\* missing, or it is installed but listing the containers fails),
\* scanContainers returns dockerAvailable = false with an empty container
\* list and no findings.
C11_UnreachableIsUnavailable ==
    (ctPc = "done" /\ RuntimeUnreachable) =>
        /\ ctResult.settled = "resolved"
        /\ ~ctResult.value.dockerAvailable
        /\ ctResult.value.containers = <<>>
        /\ ctResult.value.totalContainers = 0

\* entries of the console that carry message m
Printed(m) == {i \in 1..Len(console) : console[i].msg = m}

\* the scan handler has printed its output and signing was asked for but
\* left the signature empty: ensureKeysExist or signData threw
SigningFailed == cliPc = "exit" /\ opts.sign /\ ~Signed

\* the complete report was printed: as JSON text or as the text rendering
ReportEmitted ==
    \/ \E i \in Printed("json") :
          console[i].json = SignedReportText(report, signed, clock)
    \/ \E i \in Printed("report") : console[i].text = formatReport(report)

\* C12 - when key storage or signing fails during scan, the complete
\* report is still emitted, unsigned, and the caller is given a warning,
\* with --json as well as without.
C12_UnsignedWithWarning ==
    SigningFailed =>
        /\ ReportEmitted
        /\ report = AssembleReport([i \in 1..Len(Domains) |->
                                      ModuleResult(Domains[i], host)],
                                   report.timestamp)
        /\ Printed("Warning: Could not sign report") # {}

\* C13 - scan never fabricates a signature: the signature of the emitted
\* signed report is non-empty only when signing was asked for,
\* ensureKeysExist returned the keypair of the key store and the signature
\* is that of signData over the encoding of the emitted report under the
\* private key of that keypair; when signing is skipped or fails it is
\* empty, on the console and in the output file alike.
C13_NoFabricatedSignature ==
    cliPc \in {"output", "exit"} =>
        /\ Signed =>
              /\ opts.sign
              /\ ensPc[ScanCaller] = "done"
              /\ ensKeys[ScanCaller] = keyStore
              /\ signed.signature = signData(ReportJson(report),
                                             keyStore.privateKey)
        /\ (~opts.sign \/ ensPc[ScanCaller] = "failed") =>
              signed.signature = Str("")
        /\ (cliPc = "exit" /\ file # NoFile) =>
              /\ Field(Parsed.signature, "signature") = signed.signature
              /\ Parsed.report = ReportMembers(report)
        /\ \A i \in Printed("json") :
              console[i].json = SignedReportText(report, signed, clock)

\* signData threw after ensureKeysExist succeeded, and the file was written
C13_Witness ==
    /\ cliPc = "exit"
    /\ opts.sign
    /\ ensPc[ScanCaller] = "done"
    /\ ~Signed
    /\ file # NoFile
    /\ Field(Parsed.signature, "signature") = Str("")

\* the file carries a signature: it parses, and its signature record has a
\* non-empty signature field
CarriesSignature(p) ==
    p.ok /\ p.hasSignature /\ Truthy(Field(p.signature, "signature"))

\* C14 - verify reports a file that carries no signature as 'not signed'
\* and one whose signature is present but does not match as 'INVALID';
\* both end with exit code 1, and a verification that fails is always
\* reported as one of these two negative results, never through the
\* handler of exceptions.
C14_ClearNegativeResult ==
    (Verified /\ file # NoFile) =>
        /\ verifyOut.outcome \in {"VALID", "INVALID", "NOT_SIGNED"}
        /\ verifyOut.outcome = "NOT_SIGNED" <=> ~CarriesSignature(Parsed)
        /\ verifyOut.outcome # "VALID" => verifyOut.exitCode = 1

\* C15 - the outcome of verify depends only on the report, the signature
\* bytes and the declared public key: a file that differs from the one
\* scan wrote only in the hash, algorithm or timestamp of its signature
\* record gets the outcome the written file gets.
C15_MetadataIgnored ==
    (Verified /\ original # NoFile /\ CheckedPartsIntact) =>
        verifyOut.outcome = IF CarriesSignature(ParsedOriginal)
                            THEN "VALID" ELSE "NOT_SIGNED"

\* a character of the embedded hash was flipped and the file still verifies
C15_Witness ==
    /\ Verified
    /\ tamper = "flip"
    /\ CheckedPartsIntact
    /\ Field(Parsed.signature, "hash") # Field(ParsedOriginal.signature, "hash")
    /\ verifyOut.outcome = "VALID"

\* the private half of a keypair, or a member named after it
IsPrivateHalf(t) == "priv" \in DOMAIN t \/ t = Str("privateKey")

\* a JSON text with the private half among its tokens
TextLeaks(s) == \E i \in 1..Len(s) : IsPrivateHalf(s[i])

\* C16 - no output of scan contains the private half of the keypair:
\* neither the JSON document printed, nor the signature block of the
\* text output, nor the file written; the key the signed report names
\* is the public half.
C16_PrivateKeyNeverEmitted ==
    /\ original # NoFile => ~TextLeaks(original)
    /\ \A i \in 1..Len(console) :
          /\ "json" \in DOMAIN console[i] => ~TextLeaks(console[i].json)
          /\ "signature" \in DOMAIN console[i] =>
                /\ ~IsPrivateHalf(console[i].signature)
                /\ ~IsPrivateHalf(console[i].hash)
    /\ (cliPc \in {"output", "exit"} /\ Signed) =>
          signed.publicKey = keyStore.publicKey

\* a signed report has been printed as JSON and written to a file
C16_Witness ==
    /\ cliPc = "exit"
    /\ Signed
    /\ original # NoFile
    /\ Printed("json") # {}
    /\ Field(ParsedOriginal.signature, "publicKey") = keyStore.publicKey

\* C17 - every external command a scanner module runs is bounded by a
\* timeout, so none is ever waited for without end, and a command that
\* timed out leaves its module with a settled, resolved result.
C17_EveryCommandBounded ==
    /\ \A cmd \in Commands : exec[cmd] # "hang"
    /\ (ctPc = "done" /\ \E cmd \in Commands : exec[cmd] = "timeout") =>
          ctResult.settled = "resolved"
    /\ procPc = "done" => procResult.settled = "resolved"

\* the dominance ordering CRITICAL > HIGH > MEDIUM > LOW > CLEAN
RiskRank(level) ==
    CASE level = "CRITICAL" -> 4
      [] level = "HIGH" -> 3
      [] level = "MEDIUM" -> 2
      [] level = "LOW" -> 1
      [] level = "CLEAN" -> 0

\* the six results with one more finding of severity s in domain d
WithFinding(rs, d, s) ==
    [rs EXCEPT ![DomainIndex(d)].findings = Append(@, s)]

\* C18 - riskLevel is monotonic: the report of the same results with any
\* one finding added, of any severity in any domain, has a riskLevel that
\* is at least the riskLevel of the report, in the ordering
\* CRITICAL > HIGH > MEDIUM > LOW > CLEAN.
C18_RiskLevelMonotonic ==
    report # NoReport =>
        \A p \in FindingPairs :
           RiskRank(calculateSummary(WithFinding(results, p[1], p[2])).riskLevel)
              >= RiskRank(report.summary.riskLevel)

\* a HIGH report that a low finding holds at HIGH and a critical one raises
C18_Witness ==
    /\ report # NoReport
    /\ report.summary.riskLevel = "HIGH"
    /\ calculateSummary(WithFinding(results, "network", "low")).riskLevel
          = "HIGH"
    /\ calculateSummary(WithFinding(results, "processes", "critical")).riskLevel
          = "CRITICAL"

\* the handler has answered a vigil.scan.signed request whose scan
\* subprocess succeeded and whose signing step failed
ScanOkSigningFailed ==
    /\ mcpPc = "done"
    /\ Len(mcpRan) = 2
    /\ mcpRan[1].file = "vigil-scan" /\ mcpRan[1].outcome = "ok"
    /\ mcpRan[2].file = "python3" /\ mcpRan[2].outcome # "ok"

\* the scan result the handler builds from what the scanner printed
ScanResultOfRun ==
    parseScanOutput(mcpRan[1].stdout, ScanTarget(mcpCall.args), clock)

ScanRefusedOrFailed ==
    \/ mcpRan = <<>>
    \/ mcpRan[1].outcome # "ok"

SignedToolAnswered ==
    /\ mcpPc = "done"
    /\ mcpCall.name = "vigil.scan.signed"
    /\ ~mcpResponse.isError

\* C21 - in every non-error response of vigil.scan.signed,
\* is_tamper_evident is true exactly when the response holds a
\* cryptographic_proof, and that proof is what the signing step returned
\* for a request whose payload is the scan_result of the same response; a
\* response with is_tamper_evident false holds no cryptographic_proof.
C21_TamperEvidentIffProof ==
    SignedToolAnswered =>
        LET body == mcpResponse.text.json
        IN /\ body.is_tamper_evident <=> "cryptographic_proof" \in DOMAIN body
           /\ body.is_tamper_evident =>
                 /\ Len(mcpRan) = 2
                 /\ mcpRan[2].file = "python3" /\ mcpRan[2].outcome = "ok"
                 /\ mcpRan[2].args[1].payload = body.scan_result
                 /\ body.cryptographic_proof = ProofOf(mcpRan[2].args[1])
           /\ ~body.is_tamper_evident =>
                 /\ "cryptographic_proof" \notin DOMAIN body
                 /\ mcpRan[2].outcome # "ok"

\* a signed response for a scan that found something
C21_Witness ==
    /\ SignedToolAnswered
    /\ mcpResponse.text.json.is_tamper_evident
    /\ mcpResponse.text.json.cryptographic_proof.proof_of
          = mcpResponse.text.json.scan_result
    /\ mcpResponse.text.json.scan_result.summary.risk_level = "high"

\* the arguments the handler refuses
ArgsRefused ==
    \/ mcpCall.args.target \notin {"host", "repo"}
    \/ mcpCall.args.target = "repo" /\ mcpCall.args.repo_url \in {NoArg, ""}

\* C22 - vigil.scan and vigil.scan.signed validate their input before
\* they act: for a target other than host or repo, or the target repo
\* without a repo_url, the response is an error response and no external
\* command, scanner or signer, is ever executed.
C22_ValidatedBeforeActing ==
    (mcpCall # NoCall /\ ArgsRefused) =>
        /\ mcpPc = "done"
        /\ mcpResponse.isError
        /\ "msg" \in DOMAIN mcpResponse.text
        /\ mcpRan = <<>>
        /\ mcpScan = NoScan

\* a vigil.scan.signed request for a repository without repo_url
C22_Witness ==
    /\ mcpPc = "done"
    /\ mcpCall.name = "vigil.scan.signed"
    /\ mcpCall.args.target = "repo"
    /\ mcpCall.args.repo_url = NoArg
    /\ mcpResponse = RepoUrlRequiredResponse
    /\ mcpRan = <<>>

\* the scanner was run, and without --dry-run
RanWithoutDryRun ==
    /\ mcpRan # <<>>
    /\ \A i \in 1..Len(mcpRan[1].args) : mcpRan[1].args[i] # "--dry-run"

\* C23 - dry_run defaults to true: the scanner is run without --dry-run
\* only when the request carries dry_run = false, and a request that
\* leaves dry_run out always runs it with --dry-run.
C23_DryRunUnlessFalse ==
    /\ RanWithoutDryRun => mcpCall.args.dry_run = "false"
    /\ (mcpRan # <<>> /\ mcpCall.args.dry_run = NoArg) => ~RanWithoutDryRun

C25_NoSignLeavesKeysAlone ==
    ~opts.sign =>
        /\ ensPc[ScanCaller] = "idle"
        /\ ensKeys[ScanCaller] = NoKeys
        /\ ensTrace = <<>>
        /\ generated = 0
        /\ signed = NoSigned
        /\ original # NoFile =>
              /\ Field(ParsedOriginal.signature, "signature") = Str("")
              /\ Field(ParsedOriginal.signature, "hash") = Str("")
              /\ Field(ParsedOriginal.signature, "publicKey") = Str("")
        /\ \A i \in Printed("json") :
              console[i].json = SignedReportText(report, NoSigned, clock)
        /\ (Verified /\ original # NoFile /\ file = original) =>
              verifyOut.outcome = "NOT_SIGNED"
        /\ Verified => verifyOut.outcome # "VALID"

\* the output of scan --no-sign was verified on a host that has a keypair
C25_Witness ==
    /\ ~opts.sign
    /\ keyStore # NoKeys
    /\ Verified
    /\ original # NoFile
    /\ file = original
    /\ verifyOut.outcome = "NOT_SIGNED"
    /\ verifyOut.exitCode = 1

\* C26 - the signature record scan emits is all-or-nothing: hash,
\* signature and publicKey are all non-empty or all empty.
C26_AllOrNothing ==
    cliPc \in {"output", "exit"} =>
        \/ Truthy(signed.hash) /\ Truthy(signed.signature)
              /\ Truthy(signed.publicKey)
        \/ signed = NoSigned

\* the findings scanEnvironmentVariables returned
EnvFindings == subResult["scanEnvironmentVariables"].value

\* C27 - the secret scan of environment variables looks only at the
\* environment of the scanning process: every finding carries the pid of
\* the scanner and the name of a variable of that environment, never its
\* value, and each variable yields at most one finding even when several
\* patterns match its name.
C27_OwnEnvironmentOnly ==
    subResult["scanEnvironmentVariables"].settled = "resolved" =>
        /\ \A i \in 1..Len(EnvFindings) :
              /\ EnvFindings[i].pid = OwnPid
              /\ EnvFindings[i].command = "current-process"
              /\ \E j \in 1..Len(procEnv) :
                    /\ procEnv[j].name = EnvFindings[i].secret
                    /\ procEnv[j].matches # {}
                    /\ procEnv[j].value # ""
              /\ \A j \in 1..Len(procEnv) :
                    procEnv[j].value # "" =>
                       procEnv[j].value \notin
                          {EnvFindings[i].pid, EnvFindings[i].command,
                           EnvFindings[i].secret, EnvFindings[i].type}
        /\ \A i, k \in 1..Len(EnvFindings) :
              EnvFindings[i].secret = EnvFindings[k].secret => i = k

\* a variable whose name matches three patterns gave one finding
C27_Witness ==
    /\ subResult["scanEnvironmentVariables"].settled = "resolved"
    /\ \E j \in 1..Len(procEnv) : Cardinality(procEnv[j].matches) = 3
    /\ Len(EnvFindings) = 1
    /\ EnvFindings[1].secret = "AWS_SECRET_TOKEN"
    /\ EnvFindings[1].type = "AWS Secret"

\* the outer catch of the scan handler has run
ScanErrored == Printed("Error running scan") # {}

\* the report has been printed, as JSON or as text
ReportPrinted == Printed("json") # {} \/ Printed("report") # {}

\* C28 - scan exits with code 1 exactly when the riskLevel of the report
\* is CRITICAL or an error occurred; in the CRITICAL case the report has
\* been printed and, when -o is given, written in full to the output
\* file before the process exits.
C28_ExitCodeOne ==
    /\ cliPc = "exited" =>
          /\ exitCode \in {0, 1}
          /\ exitCode = 1 <=>
                \/ ScanErrored
                \/ report # NoReport /\ report.summary.riskLevel = "CRITICAL"
    /\ (cliPc \in {"exit", "exited"} /\ ~ScanErrored) =>
          /\ ReportPrinted
          /\ opts.output =>
                /\ original = SignedReportText(report, signed, clock)
                /\ Printed("Report saved") # {}

\* a CRITICAL report was printed and written, and scan exited with code 1
C28_Witness ==
    /\ cliPc = "exited"
    /\ exitCode = 1
    /\ ~ScanErrored
    /\ report.summary.riskLevel = "CRITICAL"
    /\ opts.output
    /\ original = SignedReportText(report, signed, clock)
    /\ verifyPc = "idle"

\* runFullScan has rejected and the handler has ended
ScanAborted == cliPc = "exited" /\ report = NoReport

\* C29 - when runFullScan itself fails the whole scan aborts: no report
\* is printed or written, signing and key generation are not attempted,
\* and the command exits with code 1.
C29_AbortOnScanFailure ==
    ScanAborted =>
        /\ exitCode = 1
        /\ ScanErrored
        /\ ~ReportPrinted
        /\ file = NoFile /\ original = NoFile
        /\ signed = NoSigned
        /\ ensPc[ScanCaller] = "idle"
        /\ ensTrace = <<>>
        /\ generated = 0

\* a signing scan with an output file was aborted on a host without keys
C29_Witness ==
    /\ ScanAborted
    /\ opts.sign /\ opts.output
    /\ keyStore = NoKeys
    /\ exitCode = 1

\* the request names a tool of the server and every member its schema
\* asks for is present with a value of the right kind
MonRequestValid ==
    /\ monCall.name \in MonTools
    /\ monCall.args = ArgsSchema(monCall.name)

\* C30 - in the monitoring server every tool call validates its arguments
\* against the schema of the tool before any HTTP request is issued:
\* invalid arguments or an unknown tool name end in an error and no
\* request reaches the Vigil server, and a call sends at most one
\* request.
C30_ValidatedBeforeRequest ==
    /\ Len(monRequests) <= 1
    /\ (monCall # NoMonCall /\ ~MonRequestValid) =>
          /\ monRequests = <<>>
          /\ monPc = "done"
          /\ monResult.thrown
          /\ monResult.message \in {"Unknown tool", "Invalid arguments"}
    /\ monRequests # <<>> =>
          /\ MonRequestValid
          /\ monRequests[1] = RequestOf(monCall.name)

\* report_replica with a load whose ram is above 1 was refused
C30_Witness ==
    /\ monPc = "done"
    /\ monCall.name = "report_replica"
    /\ "load" \in DOMAIN monCall.args
    /\ monCall.args["load"] = "load with ram above 1"
    /\ monResult = Thrown("Invalid arguments")
    /\ monRequests = <<>>

====
